---- MODULE Spec2Model ----
(***************************************************************************)
(* Model of src/main.py: a console support desk built on an agent runner.  *)
(* Module initialisation checks GEMINI_API_KEY and builds the client, the  *)
(* tools and the agents; main() reads the user context and one query and   *)
(* calls Runner.run(triage_agent, ...) once.  The language model is an     *)
(* oracle: each of its replies (hand off, call a tool, final text, error)  *)
(* is a nondeterministic choice among what the runner accepts from the     *)
(* agent that is current.  A text is a sequence of tokens.                 *)
(***************************************************************************)
EXTENDS Integers, Sequences, FiniteSets, TLC

\* ------------------------------------------------------------------ inputs
ApiKeys == {"unset", "", "key-123"}

Names == {"Ali", "idiot"}

PremiumInputs == {"yes", " YES ", "no", "y"}

IssueInputs == {"billing", " Technical ", "technical", "general", "other"}

Queries == {"I want a refund", "server is down, restart it",
            "what are your working hours", "what's the weather"}

\* str.strip().lower() on the answers main() reads
StripLower(s) ==
    CASE s = " YES " -> "yes"
      [] s = " Technical " -> "technical"
      [] OTHER -> s

\* ------------------------------------------------------------------ agents
TriageAgent == "TriageAgent"
BillingAgent == "BillingAgent"
TechnicalAgent == "TechnicalAgent"
GeneralAgent == "GeneralAgent"

HandlerAgents == {BillingAgent, TechnicalAgent, GeneralAgent}

Tools == {"refund", "restart_service", "general_info"}

\* UserContext; NoContext stands for "not built yet"
UserContext(n, p, i) == [name |-> n, is_premium_user |-> p, issue_type |-> i]

NoContext == UserContext("", FALSE, "")

NoOutput == <<>>

\* ---------------------------------------------------------------- the texts
refund(ctx) ==
    <<"Hello", ctx.name, "your refund has been successfully initiated",
      "within 3-5 business days">>

restart_service(ctx) ==
    <<"Hi", ctx.name, "Your service restart request", "is now in progress">>

general_info(ctx) ==
    <<"Hello", ctx.name, "24/7 Customer Support", "Fast & Secure Transactions">>

OutOfScopeLiteral == <<"This query is out of scope.">>

TripwireMessage == <<"Tripwire triggered.", "Offensive language is not allowed.">>

FinalOutputHeader == <<"Final Output:">>

RoutingBanner == <<"Routing your query...">>

\* texts the model composes itself, not taken from a tool or its instructions
LLMTexts == {<<"Thank you for your patience", "refunds need a premium plan">>,
             <<"you", "idiot">>}

Denylist == {"stupid", "idiot", "hate", "useless"}

ContainsOffensive(text) == \E i \in 1..Len(text) : text[i] \in Denylist

\* ------------------------------------------------------ tools and handoffs
refund_is_enabled_always(ctx) == TRUE

refund_is_enabled(ctx) == ctx.is_premium_user

restart_is_enabled_loose(ctx) == ctx.issue_type \in {"technical", "other"}

restart_is_enabled(ctx) == ctx.issue_type = "technical"

IsEnabled(tool, ctx) ==
    CASE tool = "refund" -> refund_is_enabled(ctx)
      [] tool = "restart_service" -> restart_is_enabled(ctx)
      [] OTHER -> TRUE

AgentTools(agent) ==
    CASE agent = BillingAgent -> {"refund"}
      [] agent = TechnicalAgent -> {"restart_service"}
      [] agent = GeneralAgent -> {"general_info"}
      [] OTHER -> {}

\* the tools the runner offers to the model for this agent and context
EnabledTools(agent, ctx) == {t \in AgentTools(agent) : IsEnabled(t, ctx)}

Invoke(tool, ctx) ==
    CASE tool = "refund" -> refund(ctx)
      [] tool = "restart_service" -> restart_service(ctx)
      [] OTHER -> general_info(ctx)

Handoffs_escalating(agent) ==
    IF agent = TriageAgent THEN HandlerAgents
    ELSE IF agent = BillingAgent THEN {TriageAgent, GeneralAgent}
    ELSE {}

Handoffs(agent) == IF agent = TriageAgent THEN HandlerAgents ELSE {}

OutputGuardrails(agent) ==
    IF agent = TriageAgent THEN {"NoOffensiveLanguageGuardrail"} ELSE {}

\* final texts the model can give: its own, a tool output it has seen, and
\* for the triage agent the literal quoted in its instructions
Utterances(agent, outputs) ==
    LLMTexts \cup outputs \cup (IF agent = TriageAgent THEN {OutOfScopeLiteral} ELSE {})

\* --------------------------------------------------------------- guardrail
\* deterministic stand-ins for the guardrail model
Stubs == {"accurate", "permissive", "strict"}

StubVerdict(stub, prompt) ==
    CASE stub = "accurate" -> ContainsOffensive(prompt)
      [] stub = "strict" -> TRUE
      [] OTHER -> FALSE

GuardrailPrompt_with_context(text, ctx) == text \o <<ctx.name>>

\* what the guardrail agent's model is given: the input of the nested run
GuardrailPrompt(text, ctx) == text

tripwire_never(verdict) == FALSE

tripwire_triggered(verdict) == verdict

\* ----------------------------------------------------------------- startup
KeyMissing_none_only(key) == key = "unset"

\* `if not gemini_api_key`: unset (None) or empty
KeyMissing(key) == key = "unset" \/ key = ""

\* Runner.run is called without max_turns: the runner's default
MaxTurns == 10

VARIABLES pc, apiKey, clientCreated, context, query, currentAgent, agentsRun,
          turn, toolCalls, toolOutputs, finalOutput, guardRan, guardInput,
          guardContext, guardVerdict, guardStub, outcome, errorKind, shown

vars == <<pc, apiKey, clientCreated, context, query, currentAgent, agentsRun,
          turn, toolCalls, toolOutputs, finalOutput, guardRan, guardInput,
          guardContext, guardVerdict, guardStub, outcome, errorKind, shown>>

runVars == <<currentAgent, agentsRun, turn, toolCalls, toolOutputs, finalOutput>>

guardVars == <<guardRan, guardInput, guardContext, guardVerdict>>

Init ==
    /\ pc = "start"
    /\ apiKey \in ApiKeys
    /\ guardStub \in Stubs
    /\ clientCreated = FALSE
    /\ context = NoContext
    /\ query = ""
    /\ currentAgent = "none"
    /\ agentsRun = <<>>
    /\ turn = 0
    /\ toolCalls = <<>>
    /\ toolOutputs = {}
    /\ finalOutput = NoOutput
    /\ guardRan = FALSE
    /\ guardInput = NoOutput
    /\ guardContext = NoContext
    /\ guardVerdict = FALSE
    /\ outcome = "none"
    /\ errorKind = "none"
    /\ shown = <<>>

\* module initialisation: the key check, then client, model, config, agents
Startup ==
    /\ pc = "start"
    /\ IF KeyMissing(apiKey)
         THEN /\ pc' = "config_error"
              /\ errorKind' = "ValueError"
              /\ UNCHANGED clientCreated
         ELSE /\ pc' = "input"
              /\ clientCreated' = TRUE
              /\ UNCHANGED errorKind
    /\ UNCHANGED <<apiKey, context, query, runVars, guardVars, guardStub,
                   outcome, shown>>

\* main() up to the call of Runner.run: the context, the query, the banner
ReadInput(n, premiumIn, issueIn, q) ==
    /\ pc = "input"
    /\ context' = UserContext(n, StripLower(premiumIn) = "yes", StripLower(issueIn))
    /\ query' = q
    /\ shown' = Append(shown, RoutingBanner)
    /\ currentAgent' = TriageAgent
    /\ agentsRun' = <<TriageAgent>>
    /\ pc' = "running"
    /\ UNCHANGED <<apiKey, clientCreated, turn, toolCalls, toolOutputs,
                   finalOutput, guardVars, guardStub, outcome, errorKind>>

\* an exception other than the tripwire leaves Runner.run and main()
Raise(kind) ==
    /\ pc' = "done"
    /\ outcome' = "Exception"
    /\ errorKind' = kind

\* main() after Runner.run returned
PrintFinal(text) ==
    /\ pc' = "done"
    /\ outcome' = "Released"
    /\ shown' = shown \o <<FinalOutputHeader, text>>
    /\ UNCHANGED errorKind

\* the loop head of the next turn: the turn limit
NextTurn ==
    IF turn + 1 >= MaxTurns
      THEN Raise("MaxTurnsExceeded")
      ELSE UNCHANGED <<pc, outcome, errorKind>>

\* the model's reply asks for a handoff
ModelHandoff(target) ==
    /\ pc = "running"
    /\ target \in Handoffs(currentAgent)
    /\ turn' = turn + 1
    /\ currentAgent' = target
    /\ agentsRun' = Append(agentsRun, target)
    /\ NextTurn
    /\ UNCHANGED <<apiKey, clientCreated, context, query, toolCalls, toolOutputs,
                   finalOutput, guardVars, guardStub, shown>>

\* the model's reply calls a tool the runner offered
ModelCallsTool(tool) ==
    /\ pc = "running"
    /\ tool \in EnabledTools(currentAgent, context)
    /\ turn' = turn + 1
    /\ toolCalls' = Append(toolCalls, tool)
    /\ toolOutputs' = toolOutputs \cup {Invoke(tool, context)}
    /\ NextTurn
    /\ UNCHANGED <<apiKey, clientCreated, context, query, currentAgent, agentsRun,
                   finalOutput, guardVars, guardStub, shown>>

\* the model's reply names a tool the runner did not offer
ModelCallsMissingTool(tool) ==
    /\ pc = "running"
    /\ tool \in Tools \ EnabledTools(currentAgent, context)
    /\ turn' = turn + 1
    /\ Raise("ModelBehaviorError")
    /\ UNCHANGED <<apiKey, clientCreated, context, query, currentAgent, agentsRun,
                   toolCalls, toolOutputs, finalOutput, guardVars, guardStub, shown>>

\* the model call itself fails
ModelFails ==
    /\ pc = "running"
    /\ turn' = turn + 1
    /\ Raise("APIError")
    /\ UNCHANGED <<apiKey, clientCreated, context, query, currentAgent, agentsRun,
                   toolCalls, toolOutputs, finalOutput, guardVars, guardStub, shown>>

\* the model's reply is a final text: the output guardrails of the agent
\* that is current run next; with none, Runner.run returns and main prints
ModelFinalOutput(text) ==
    /\ pc = "running"
    /\ text \in Utterances(currentAgent, toolOutputs)
    /\ turn' = turn + 1
    /\ finalOutput' = text
    /\ IF OutputGuardrails(currentAgent) = {}
         THEN PrintFinal(text)
         ELSE /\ pc' = "guardrail"
              /\ UNCHANGED <<outcome, errorKind, shown>>
    /\ UNCHANGED <<apiKey, clientCreated, context, query, currentAgent, agentsRun,
                   toolCalls, toolOutputs, guardVars, guardStub>>

\* NoOffensiveLanguageGuardrail: the nested run answers
GuardrailVerdict ==
    /\ pc = "guardrail"
    /\ LET prompt == GuardrailPrompt(finalOutput, context)
           verdict == StubVerdict(guardStub, prompt)
       IN /\ guardRan' = TRUE
          /\ guardInput' = prompt
          /\ guardContext' = context
          /\ guardVerdict' = verdict
          /\ IF tripwire_triggered(verdict)
               THEN /\ pc' = "done"
                    /\ outcome' = "Blocked"
                    /\ shown' = Append(shown, TripwireMessage)
                    /\ UNCHANGED errorKind
               ELSE PrintFinal(finalOutput)
    /\ UNCHANGED <<apiKey, clientCreated, context, query, runVars, guardStub>>

\* NoOffensiveLanguageGuardrail: the nested run fails
GuardrailFails ==
    /\ pc = "guardrail"
    /\ guardRan' = TRUE
    /\ guardInput' = GuardrailPrompt(finalOutput, context)
    /\ guardContext' = context
    /\ Raise("APIError")
    /\ UNCHANGED <<apiKey, clientCreated, context, query, runVars, guardVerdict,
                   guardStub, shown>>

Next ==
    \/ Startup
    \/ \E n \in Names, p \in PremiumInputs, i \in IssueInputs, q \in Queries :
          ReadInput(n, p, i, q)
    \/ \E a \in HandlerAgents \cup {TriageAgent} : ModelHandoff(a)
    \/ \E t \in Tools : ModelCallsTool(t)
    \/ \E t \in Tools : ModelCallsMissingTool(t)
    \/ ModelFails
    \/ \E text \in LLMTexts \cup {OutOfScopeLiteral}
                   \cup {Invoke(t, context) : t \in Tools} : ModelFinalOutput(text)
    \/ GuardrailVerdict
    \/ GuardrailFails

Spec == Init /\ [][Next]_vars

\* ------------------------------------------------------------ vocabulary
Done == pc = "done"

Handler == IF Len(agentsRun) >= 2 THEN agentsRun[2] ELSE "none"

Invoked(tool) == \E i \in 1..Len(toolCalls) : toolCalls[i] = tool

\* the request's place in ROUTING -> DISPATCHED -> VALIDATING -> terminal
Phase ==
    CASE pc = "running" /\ currentAgent = TriageAgent -> 1
      [] pc = "running" -> 2
      [] pc = "guardrail" -> 3
      [] pc = "done" -> 4
      [] OTHER -> 0

TypeOK ==
    /\ pc \in {"start", "config_error", "input", "running", "guardrail", "done"}
    /\ outcome \in {"none", "Released", "Blocked", "Exception"}
    /\ turn \in 0..MaxTurns
    /\ guardVerdict \in BOOLEAN

\* ------------------------------------------------------------------ claims

\* C1: with a guardrail model that judges accurately, a response is released
\* only after the guardrail validated that very text with a negative verdict,
\* so no released response contains a denylisted term, whichever agent wrote it.
C1_EveryReleaseValidated ==
    (guardStub = "accurate" /\ outcome = "Released") =>
        /\ guardRan
        /\ ~guardVerdict
        /\ guardInput = finalOutput
        /\ ~ContainsOffensive(finalOutput)

\* C2: once the guardrail verdict is positive the request is Blocked: the
\* caller is shown the routing banner and the tripwire message only, and no
\* shown line is the candidate or shares a token with it.
C2_TripwireSuppressesCandidate ==
    (guardRan /\ guardVerdict) =>
        /\ outcome = "Blocked"
        /\ shown = <<RoutingBanner, TripwireMessage>>
        /\ \A i \in 1..Len(shown) :
              /\ shown[i] # finalOutput
              /\ \A j \in 1..Len(shown[i]), k \in 1..Len(finalOutput) :
                    shown[i][j] # finalOutput[k]

C2_Witness ==
    /\ Done
    /\ guardVerdict
    /\ outcome = "Blocked"
    /\ ContainsOffensive(finalOutput)

\* C3 as stated: for a non-premium context the billing agent never invokes
\* refund, never returns the refund text, and whatever it returns is a fixed
\* fallback message (not a text the model composed), released and not blocked.
C3_FallbackIsDeterministic ==
    (Handler = BillingAgent /\ ~context.is_premium_user) =>
        /\ ~Invoked("refund")
        /\ finalOutput # refund(context)
        /\ finalOutput # NoOutput =>
              (finalOutput \notin LLMTexts /\ outcome = "Released")

\* C3 amended: for a non-premium context the billing agent never invokes
\* refund and never returns the refund text; what it returns is a text
\* composed by the model, it is released as it is, and the request is never
\* Blocked.
C3_NonPremiumNeverRefunds ==
    (Handler = BillingAgent /\ ~context.is_premium_user) =>
        /\ ~Invoked("refund")
        /\ refund(context) \notin toolOutputs
        /\ finalOutput # refund(context)
        /\ outcome # "Blocked"
        /\ finalOutput # NoOutput =>
              (finalOutput \in LLMTexts /\ outcome = "Released")

C3_Witness ==
    /\ Done
    /\ Handler = BillingAgent
    /\ ~context.is_premium_user
    /\ query = "I want a refund"
    /\ outcome = "Released"

\* C4: when the context's issue_type is not exactly "technical", the technical
\* agent never invokes restart_service and never returns the restart text,
\* whatever the query and whatever the router decided.
C4_NonTechnicalNeverRestarts ==
    (Handler = TechnicalAgent /\ context.issue_type # "technical") =>
        /\ ~Invoked("restart_service")
        /\ restart_service(context) \notin toolOutputs
        /\ finalOutput # restart_service(context)

C4_Witness ==
    /\ Done
    /\ Handler = TechnicalAgent
    /\ context.issue_type = "other"
    /\ query = "server is down, restart it"
    /\ outcome = "Released"

\* C5: when the router hands off to no agent, the candidate is exactly the
\* literal "This query is out of scope." and no tool was invoked: the router
\* gives no other answer text of its own.
C5_RouterOnlySaysOutOfScope ==
    (Handler = "none" /\ finalOutput # NoOutput) =>
        /\ finalOutput = OutOfScopeLiteral
        /\ toolCalls = <<>>

\* C6: every request ends Released, Blocked or Failed; a failed model call
\* ends the request with the typed outcome Failed and nothing released.
C6_TypedOutcomeOnly ==
    Done =>
        /\ outcome \in {"Released", "Blocked", "Failed"}
        /\ errorKind = "APIError" => outcome = "Failed"

\* C7: when the dispatched agent has a tool enabled for the context, the
\* candidate it returns is exactly the output of one enabled tool, invoked
\* once, and nothing else.
C7_HandlerReturnsArtifact ==
    (/\ Handler \in HandlerAgents
     /\ EnabledTools(Handler, context) # {}
     /\ finalOutput # NoOutput) =>
        /\ finalOutput \in {Invoke(t, context) : t \in EnabledTools(Handler, context)}
        /\ Len(toolCalls) = 1

\* what the verdict would be for the same candidate under any other context
VerdictUnder(ctx) == StubVerdict(guardStub, GuardrailPrompt(finalOutput, ctx))

OtherContexts ==
    {UserContext(n, p, i) : n \in Names, p \in BOOLEAN,
                            i \in {StripLower(x) : x \in IssueInputs}}

C9_NoKeyNothingRuns ==
    (apiKey = "unset" \/ apiKey = "") =>
        /\ pc \in {"start", "config_error"}
        /\ ~clientCreated
        /\ context = NoContext
        /\ turn = 0
        /\ agentsRun = <<>>
        /\ toolCalls = <<>>
        /\ ~guardRan
        /\ outcome = "none"
        /\ shown = <<>>

C9_Witness ==
    /\ pc = "config_error"
    /\ apiKey = ""
    /\ errorKind = "ValueError"

\* C10: the router hands off at most once, the agent it dispatched to stays
\* the current agent to the end (it hands off to nobody), and the request
\* never moves back to an earlier phase nor leaves a terminal one.
C10_NoReentry ==
    [][ /\ Len(agentsRun') <= 2
        /\ Len(agentsRun) >= 2 =>
              (agentsRun' = agentsRun /\ currentAgent' = currentAgent)
        /\ Phase' >= Phase
        /\ Phase = 4 => UNCHANGED <<pc, outcome, finalOutput, shown>> ]_vars

C10_Witness ==
    /\ Done
    /\ Handler = BillingAgent
    /\ EnabledTools(BillingAgent, context) = {}
    /\ agentsRun = <<TriageAgent, BillingAgent>>
    /\ turn = 2
    /\ finalOutput \in LLMTexts

====
